---- MODULE Spec2Model ----
(***************************************************************************)
(* gomarket (main.go): the fetch-button handler, callPythonARIMA and       *)
(* plotData, as a state machine.  Every request slot of Req is one run of  *)
(* the button callback; slots interleave at the granularity of the         *)
(* callback's file-system and process operations.                          *)
(***************************************************************************)
EXTENDS Integers, Sequences, FiniteSets, TLC

VARIABLES
    pc,          \* per request: position in the handler / callPythonARIMA
    entry,       \* per request: "handler" (button callback) or "direct" (callPythonARIMA called as a function)
    symbol,      \* per request: stockEntry.Text read at line 162
    prices,      \* per request: the prices slice (lines 176-179)
    tempName,    \* per request: tempExe.Name(), 0 before TempFile succeeded
    handleOpen,  \* per request: tempExe is open (TempFile .. tempExe.Close())
    child,       \* per request: the child process: "none", "running", "exited"
    outcome,     \* per request: exit status and captured stdout / stderr buffers
    predictions, \* per request: the forecast callPythonARIMA returned
    err,         \* per request: the error value returned to the handler
    logged,      \* per request: the log lines it printed, in order
    tempDir,     \* the temporary directory: name -> request that created the file, 0 when absent
    plotFile,    \* the file plot.png
    img,         \* the image the window shows
    staged,      \* per request: number of successful TempFile calls
    spawned,     \* per request: number of child processes started
    removeCalls  \* per request: number of os.Remove calls made

vars == <<pc, entry, symbol, prices, tempName, handleOpen, child, outcome,
          predictions, err, logged, tempDir, plotFile, img, staged, spawned,
          removeCalls>>

----------------------------------------------------------------------------
(* Bounds *)

NumReq == 2      \* request slots that may overlap
NumNames == 2    \* distinct random suffixes TempFile can draw
MaxFetch == 2    \* longest price series a fetch returns in the pipeline model
MaxLen == 92     \* longest price series handed to plotData in the plot model

(* Program constant: the window of plotData, math.Min(90, ...) *)
W == 90

Req == 1..NumReq
Names == 1..NumNames

(* stockEntry.Text when request r is made *)
EntryText(r) == IF r % 2 = 1 THEN "AAPL" ELSE "MSFT"

Min(a, b) == IF a < b THEN a ELSE b
Max(a, b) == IF a > b THEN a ELSE b

(* A price series of n closes for a symbol: distinct values, ascending dates *)
Base(s) == IF s = "AAPL" THEN 100 ELSE 200
Series(s, n) == [i \in 1..n |-> Base(s) + i - 1]

----------------------------------------------------------------------------
(* Error values.  parts is what the error value carries (its fields, the   *)
(* text Error() prints).                                                    *)

NoErr == [type |-> "nil", parts |-> {}]
FetchErr == [type |-> "http", parts |-> {"Get: dial tcp: no route to host"}]
TempFileErr == [type |-> "fs.PathError", parts |-> {"open arima_predict_*.exe: file exists"}]
WriteErr == [type |-> "fs.PathError", parts |-> {"write: no space left on device"}]
LaunchErr == [type |-> "exec.Error", parts |-> {"fork/exec: permission denied"}]
ExitErr == [type |-> "exec.ExitError", parts |-> {"exit status 1"}]
SyntaxErr == [type |-> "json.SyntaxError",
              parts |-> {"invalid character 'o' in literal null (expecting 'u')"}]
TypeErr == [type |-> "json.UnmarshalTypeError",
            parts |-> {"json: cannot unmarshal into Go value of type []float64"}]
SaveErr == [type |-> "fs.PathError", parts |-> {"open plot.png: permission denied"}]

----------------------------------------------------------------------------
(* What the predictor may write to its standard output: text that is not   *)
(* JSON, or a JSON document.  raw is the text itself.                      *)

Num(v) == [t |-> "num", v |-> v]
JNull == [t |-> "null", v |-> 0]
JStr == [t |-> "str", v |-> 0]

(* nothing written: not a JSON document either *)
NoOutput == [t |-> "invalid", raw |-> "", elems |-> <<>>]
StdoutDocs ==
    { [t |-> "invalid", raw |-> "not json", elems |-> <<>>],
      [t |-> "null", raw |-> "null", elems |-> <<>>],
      [t |-> "object", raw |-> "{\"forecast\":[105]}", elems |-> <<>>],
      [t |-> "array", raw |-> "[]", elems |-> <<>>],
      [t |-> "array", raw |-> "[105,106]", elems |-> <<Num(105), Num(106)>>],
      [t |-> "array", raw |-> "[null,7]", elems |-> <<JNull, Num(7)>>],
      [t |-> "array", raw |-> "[\"up\",7]", elems |-> <<JStr, Num(7)>>] }

(* The document is an ordered array of numbers *)
IsNumberArray(doc) ==
    doc.t = "array" /\ \A i \in 1..Len(doc.elems) : doc.elems[i].t = "num"

(* json.Unmarshal's error dropped: whatever was decoded is returned *)
UnmarshalErrIgnored(doc) ==
    [err |-> NoErr,
     val |-> [i \in 1..Len(doc.elems) |->
                IF doc.elems[i].t = "num" THEN doc.elems[i].v ELSE 0]]

(* json.Unmarshal(out.Bytes(), &predictions) with predictions a nil        *)
(* []float64: invalid text is a SyntaxError; JSON null leaves the slice    *)
(* nil without an error; a null element leaves the element 0; a value of   *)
(* another type is an UnmarshalTypeError.                                  *)
Unmarshal(doc) ==
    CASE doc.t = "invalid" -> [err |-> SyntaxErr, val |-> <<>>]
      [] doc.t = "null" -> [err |-> NoErr, val |-> <<>>]
      [] doc.t = "array" ->
            [err |-> IF \E i \in 1..Len(doc.elems) : doc.elems[i].t = "str"
                     THEN TypeErr ELSE NoErr,
             val |-> [i \in 1..Len(doc.elems) |->
                        IF doc.elems[i].t = "num" THEN doc.elems[i].v ELSE 0]]
      [] OTHER -> [err |-> TypeErr, val |-> <<>>]

NoOutcome == [exit |-> -1, stdout |-> NoOutput, stderr |-> ""]

----------------------------------------------------------------------------
(* plotData: the two point series of the chart *)

(* no windowing: the series is plotted from its first point *)
startIndexWhole(n) == 0

(* line 122: startIndex := len(prices) - int(math.Min(90, float64(len(prices)))) *)
startIndex(n) == n - Min(W, n)

(* lines 124-128, with Go's 0-based prices[i] read as prices[i + 1] *)
stockPoints(p) ==
    [k \in 1..(Len(p) - startIndex(Len(p))) |->
        [X |-> k - 1, Y |-> p[startIndex(Len(p)) + k]]]

(* the forecast placed after len(prices) instead of after the window *)
predPointsFromLen(p, f) ==
    [k \in 1..Len(f) |-> [X |-> Len(p) + (k - 1), Y |-> f[k]]]

(* lines 130-134 *)
predPoints(p, f) ==
    [k \in 1..Len(f) |-> [X |-> Len(p) - startIndex(Len(p)) + (k - 1), Y |-> f[k]]]

(* lines 117-144: the plot that p.Save renders *)
plotData(p, f, s) ==
    [title |-> s, stock |-> stockPoints(p), pred |-> predPoints(p, f)]

NoChart == [title |-> "", stock |-> <<>>, pred |-> <<>>]
NoFile == [by |-> -1, chart |-> NoChart]
(* a plot.png left in the working directory by an earlier run *)
OldFile == [by |-> 0, chart |-> plotData(Series("AAPL", 2), <<>>, "AAPL")]

----------------------------------------------------------------------------
(* State after construction (lines 149-158, 205): no request is running,   *)
(* plot.png is absent or left by an earlier run, and the window shows what *)
(* canvas.NewImageFromFile("plot.png") found.                              *)

Init ==
    /\ pc = [r \in Req |-> "idle"]
    /\ entry = [r \in Req |-> "handler"]
    /\ symbol = [r \in Req |-> ""]
    /\ prices = [r \in Req |-> <<>>]
    /\ tempName = [r \in Req |-> 0]
    /\ handleOpen = [r \in Req |-> FALSE]
    /\ child = [r \in Req |-> "none"]
    /\ outcome = [r \in Req |-> NoOutcome]
    /\ predictions = [r \in Req |-> <<>>]
    /\ err = [r \in Req |-> NoErr]
    /\ logged = [r \in Req |-> <<>>]
    /\ tempDir = [n \in Names |-> 0]
    /\ plotFile \in {NoFile, OldFile}
    /\ img = plotFile
    /\ staged = [r \in Req |-> 0]
    /\ spawned = [r \in Req |-> 0]
    /\ removeCalls = [r \in Req |-> 0]

LogLine(text, e, se) == [text |-> text, err |-> e, stderr |-> se]

(* the guard of line 183 written as len(prices) < 1 *)
EnoughDataLoose(p) == ~(Len(p) < 1)

(* line 183: if len(prices) < 2 { return } *)
EnoughData(p) == ~(Len(p) < 2)

(* lines 161-186 and 71-77: the button callback starts: it reads the       *)
(* symbol, calls fetchStockData, applies the two guards and, inside        *)
(* callPythonARIMA, json.Marshal (which cannot fail on finite floats)      *)
Fetch(r) ==
    /\ pc[r] = "idle"
    /\ symbol' = [symbol EXCEPT ![r] = EntryText(r)]
    /\ \/ /\ err' = [err EXCEPT ![r] = FetchErr]
          /\ logged' = [logged EXCEPT ![r] =
                           Append(@, LogLine("Error fetching data:", FetchErr, ""))]
          /\ pc' = [pc EXCEPT ![r] = "done"]
          /\ UNCHANGED prices
       \/ \E n \in 0..MaxFetch :
            LET data == Series(EntryText(r), n)
                l1 == Append(logged[r], LogLine("Fetched data points for symbol", NoErr, ""))
                l2 == Append(l1, LogLine("Prices for symbol", NoErr, ""))
            IN  /\ err' = err
                /\ IF Len(data) = 0
                   THEN /\ prices' = prices
                        /\ logged' = [logged EXCEPT ![r] =
                              Append(l1, LogLine("No data returned for symbol:", NoErr, ""))]
                        /\ pc' = [pc EXCEPT ![r] = "done"]
                   ELSE /\ prices' = [prices EXCEPT ![r] = data]
                        /\ IF EnoughData(data)
                           THEN /\ logged' = [logged EXCEPT ![r] = l2]
                                /\ pc' = [pc EXCEPT ![r] = "stage"]
                           ELSE /\ logged' = [logged EXCEPT ![r] =
                                      Append(l2, LogLine("Not enough data points for predictions.", NoErr, ""))]
                                /\ pc' = [pc EXCEPT ![r] = "done"]
    /\ UNCHANGED <<entry, tempName, handleOpen, child, outcome,
                   predictions, tempDir, plotFile, img, staged, spawned,
                   removeCalls>>

(* callPythonARIMA returns (f, e) to its caller.  Lines 188-193 of the     *)
(* handler: an error is logged and ends the request, otherwise plotData is *)
(* next.  A direct caller just receives the pair.                          *)
ReturnTo(r, f, e) ==
    /\ predictions' = [predictions EXCEPT ![r] = f]
    /\ err' = [err EXCEPT ![r] = e]
    /\ IF entry[r] = "direct"
       THEN /\ pc' = [pc EXCEPT ![r] = "done"]
            /\ logged' = logged
       ELSE IF e # NoErr
       THEN /\ pc' = [pc EXCEPT ![r] = "done"]
            /\ logged' = [logged EXCEPT ![r] =
                             Append(@, LogLine("Error calling ARIMA prediction:", e, ""))]
       ELSE /\ pc' = [pc EXCEPT ![r] = "plot"]
            /\ logged' = logged

(* a fixed or unchecked name: an existing file is opened and truncated *)
AnyName(dir) == Names

(* The names ioutil.TempFile may create: it opens with O_EXCL and draws a  *)
(* new suffix when the name exists.                                        *)
FreeNames(dir) == {n \in Names : dir[n] = 0}

(* lines 80-84: ioutil.TempFile, and the deferred os.Remove is registered *)
Stage(r) ==
    /\ pc[r] = "stage"
    /\ \/ /\ ReturnTo(r, <<>>, TempFileErr)
          /\ UNCHANGED <<tempName, handleOpen, tempDir, staged>>
       \/ \E n \in FreeNames(tempDir) :
            /\ tempDir' = [tempDir EXCEPT ![n] = r]
            /\ tempName' = [tempName EXCEPT ![r] = n]
            /\ handleOpen' = [handleOpen EXCEPT ![r] = TRUE]
            /\ staged' = [staged EXCEPT ![r] = @ + 1]
            /\ pc' = [pc EXCEPT ![r] = "write"]
            /\ UNCHANGED <<predictions, err, logged>>
    /\ UNCHANGED <<entry, symbol, prices, child, outcome, plotFile, img,
                   spawned, removeCalls>>

(* lines 87-90: tempExe.Write, then tempExe.Close(); a failed Write        *)
(* returns with the file still open                                        *)
Write(r) ==
    /\ pc[r] = "write"
    /\ \/ /\ err' = [err EXCEPT ![r] = WriteErr]
          /\ pc' = [pc EXCEPT ![r] = "defer"]
          /\ UNCHANGED handleOpen
       \/ /\ handleOpen' = [handleOpen EXCEPT ![r] = FALSE]
          /\ pc' = [pc EXCEPT ![r] = "start"]
          /\ UNCHANGED err
    /\ UNCHANGED <<entry, symbol, prices, tempName, child, outcome,
                   predictions, logged, tempDir, plotFile, img, staged,
                   spawned, removeCalls>>

(* lines 93-100: exec.Command and the start of cmd.Run; lines 101-104 when *)
(* the process cannot be started                                           *)
Start(r) ==
    /\ pc[r] = "start"
    /\ \/ /\ err' = [err EXCEPT ![r] = LaunchErr]
          /\ logged' = [logged EXCEPT ![r] =
                           Append(@, LogLine("Error calling ARIMA prediction:", LaunchErr, ""))]
          /\ pc' = [pc EXCEPT ![r] = "defer"]
          /\ UNCHANGED <<child, spawned>>
       \/ /\ tempDir[tempName[r]] # 0
          /\ child' = [child EXCEPT ![r] = "running"]
          /\ spawned' = [spawned EXCEPT ![r] = @ + 1]
          /\ pc' = [pc EXCEPT ![r] = "wait"]
          /\ UNCHANGED <<err, logged>>
    /\ UNCHANGED <<entry, symbol, prices, tempName, handleOpen, outcome,
                   predictions, tempDir, plotFile, img, staged, removeCalls>>

(* cmd.Run's error dropped: the exit status is not looked at *)
RunErrIgnored(exit) == NoErr

(* line 100: the error cmd.Run returns for the child's exit status *)
RunErr(exit) == IF exit # 0 THEN ExitErr ELSE NoErr

(* lines 100-112: cmd.Run returns when the child has exited; a non-zero    *)
(* status is logged with the captured stderr and returned, otherwise the   *)
(* captured stdout is decoded                                              *)
Wait(r) ==
    /\ pc[r] = "wait"
    /\ child' = [child EXCEPT ![r] = "exited"]
    /\ \E exit \in {0, 1} :
       \E doc \in (IF exit = 0 THEN StdoutDocs ELSE {NoOutput}) :
         LET se == IF exit = 0 THEN "" ELSE "model failed"
         IN  /\ outcome' = [outcome EXCEPT ![r] =
                               [exit |-> exit, stdout |-> doc, stderr |-> se]]
             /\ IF RunErr(exit) # NoErr
                THEN /\ logged' = [logged EXCEPT ![r] =
                           Append(@, LogLine("Error calling ARIMA prediction:", RunErr(exit), se))]
                     /\ err' = [err EXCEPT ![r] = RunErr(exit)]
                     /\ UNCHANGED predictions
                ELSE /\ err' = [err EXCEPT ![r] = Unmarshal(doc).err]
                     /\ predictions' = [predictions EXCEPT ![r] =
                           IF Unmarshal(doc).err # NoErr THEN <<>> ELSE Unmarshal(doc).val]
                     /\ UNCHANGED logged
    /\ pc' = [pc EXCEPT ![r] = "defer"]
    /\ UNCHANGED <<entry, symbol, prices, tempName, handleOpen, tempDir,
                   plotFile, img, staged, spawned, removeCalls>>

(* os.Remove(name): the directories it may leave.  A file that is still    *)
(* open is deleted where the platform allows it (POSIX unlink) and kept    *)
(* where it does not (Windows: sharing violation); the error is discarded. *)
osRemove(dir, n, open) ==
    IF open THEN {[dir EXCEPT ![n] = 0], dir} ELSE {[dir EXCEPT ![n] = 0]}

(* line 84, run as callPythonARIMA returns: os.Remove(tempExe.Name()),     *)
(* then control is back in the caller and the function's locals (tempExe,  *)
(* cmd, out, stderr) are gone                                              *)
Defer(r) ==
    /\ pc[r] = "defer"
    /\ tempDir' \in osRemove(tempDir, tempName[r], handleOpen[r])
    /\ removeCalls' = [removeCalls EXCEPT ![r] = @ + 1]
    /\ tempName' = [tempName EXCEPT ![r] = 0]
    /\ child' = [child EXCEPT ![r] = "none"]
    /\ outcome' = [outcome EXCEPT ![r] = NoOutcome]
    /\ ReturnTo(r, predictions[r], err[r])
    /\ UNCHANGED <<entry, symbol, prices, handleOpen, plotFile, img, staged,
                   spawned>>

(* lines 194-197: plotData, whose p.Save writes plot.png or fails *)
Plot(r) ==
    /\ pc[r] = "plot"
    /\ \/ /\ plotFile' = [by |-> r,
                          chart |-> plotData(prices[r], predictions[r], symbol[r])]
          /\ pc' = [pc EXCEPT ![r] = "update"]
          /\ UNCHANGED <<err, logged>>
       \/ /\ err' = [err EXCEPT ![r] = SaveErr]
          /\ logged' = [logged EXCEPT ![r] =
                           Append(@, LogLine("Error plotting data:", SaveErr, ""))]
          /\ pc' = [pc EXCEPT ![r] = "done"]
          /\ UNCHANGED plotFile
    /\ UNCHANGED <<entry, symbol, prices, tempName, handleOpen, child,
                   outcome, predictions, tempDir, img, staged, spawned,
                   removeCalls>>

(* the image is not reloaded after the render *)
KeepOldImage(file, old) == old

(* line 200: canvas.NewImageFromFile("plot.png") replaces the old image *)
NewImageFromFile(file, old) == file

(* lines 199-202: the window's image is replaced by what plot.png holds *)
Update(r) ==
    /\ pc[r] = "update"
    /\ img' = NewImageFromFile(plotFile, img)
    /\ pc' = [pc EXCEPT ![r] = "done"]
    /\ UNCHANGED <<entry, symbol, prices, tempName, handleOpen, child,
                   outcome, predictions, err, logged, tempDir, plotFile,
                   staged, spawned, removeCalls>>

(* One step of the button callback for request r *)
Step(r) ==
    \/ Fetch(r)
    \/ Stage(r)
    \/ Write(r)
    \/ Start(r)
    \/ Wait(r)
    \/ Defer(r)
    \/ Plot(r)
    \/ Update(r)

Next == \E r \in Req : Step(r)

Spec == Init /\ [][Next]_vars

----------------------------------------------------------------------------
(* callPythonARIMA as a function (line 70): a caller other than the button *)
(* callback hands it any price slice, of length 0 and 1 as well.           *)

CallDirect(r) ==
    /\ pc[r] = "idle"
    /\ entry' = [entry EXCEPT ![r] = "direct"]
    /\ \E n \in 0..MaxFetch : prices' = [prices EXCEPT ![r] = Series(EntryText(r), n)]
    /\ pc' = [pc EXCEPT ![r] = "stage"]
    /\ UNCHANGED <<symbol, tempName, handleOpen, child, outcome, predictions,
                   err, logged, tempDir, plotFile, img, staged, spawned,
                   removeCalls>>

(* One caller: request 1 either goes through the button callback or calls *)
(* callPythonARIMA directly.                                               *)
NextInvoke == CallDirect(1) \/ Step(1)

SpecInvoke == Init /\ [][NextInvoke]_vars

----------------------------------------------------------------------------
(* plotData as a function (line 116) of any price series and forecast *)

Forecasts == {<<>>, <<7>>, <<105, 106>>}

InitPlot ==
    /\ pc = [r \in Req |-> IF r = 1 THEN "plot" ELSE "idle"]
    /\ entry = [r \in Req |-> "handler"]
    /\ symbol = [r \in Req |-> IF r = 1 THEN EntryText(1) ELSE ""]
    /\ \E n \in 0..MaxLen :
         prices = [r \in Req |-> IF r = 1 THEN Series(EntryText(1), n) ELSE <<>>]
    /\ \E f \in Forecasts :
         predictions = [r \in Req |-> IF r = 1 THEN f ELSE <<>>]
    /\ tempName = [r \in Req |-> 0]
    /\ handleOpen = [r \in Req |-> FALSE]
    /\ child = [r \in Req |-> "none"]
    /\ outcome = [r \in Req |-> NoOutcome]
    /\ err = [r \in Req |-> NoErr]
    /\ logged = [r \in Req |-> <<>>]
    /\ tempDir = [n \in Names |-> 0]
    /\ plotFile = NoFile
    /\ img = NoFile
    /\ staged = [r \in Req |-> 0]
    /\ spawned = [r \in Req |-> 0]
    /\ removeCalls = [r \in Req |-> 0]

NextPlot == Plot(1) \/ Update(1)

SpecPlot == InitPlot /\ [][NextPlot]_vars

----------------------------------------------------------------------------
(* Vocabulary of the properties *)

(* callPythonARIMA was entered by request r and control is back in its caller *)
Returned(r) == pc[r] \in {"plot", "update", "done"}

(* the staged artifacts of request r that exist *)
Artifacts(r) == {n \in Names : tempDir[n] = r}

(* the chart rendered from request r's own symbol, prices and forecast *)
OwnChart(r) == plotData(prices[r], predictions[r], symbol[r])

(* request r has ended without presenting a chart *)
Failed(r) == pc[r] = "done" /\ (err[r] # NoErr \/ Len(prices[r]) < 2)

JsonErrTypes == {"json.SyntaxError", "json.UnmarshalTypeError"}

(* prices[max(0, len - 90) : len] with horizontal indices from 0 *)
WindowPoints(p) ==
    LET lo == Max(0, Len(p) - 90)
        win == SubSeq(p, lo + 1, Len(p))
    IN  [k \in 1..Len(win) |-> [X |-> k - 1, Y |-> win[k]]]

----------------------------------------------------------------------------
(* C1, as claimed: every invocation of callPythonARIMA with a price        *)
(* sequence of length 0 or 1 fails with InsufficientDataError and neither  *)
(* stages an artifact nor spawns a child, also when it is not reached      *)
(* through the handler's guard.                                            *)
C1_Original ==
    \A r \in Req :
        (entry[r] = "direct" /\ pc[r] # "idle" /\ Len(prices[r]) < 2) =>
            /\ staged[r] = 0
            /\ spawned[r] = 0
            /\ (pc[r] = "done" => err[r].type = "InsufficientDataError")

(* C1, amended: a price sequence of length 0 or 1 is rejected by the       *)
(* button handler's own guards, which log and end the request before       *)
(* callPythonARIMA is called, so nothing is staged and no child is         *)
(* spawned; callPythonARIMA itself has no length check and, called         *)
(* directly with such a sequence, goes on to stage the artifact.           *)
C1_Amended ==
    \A r \in Req :
        /\ (entry[r] = "handler" /\ pc[r] # "idle" /\ Len(prices[r]) < 2) =>
              /\ pc[r] = "done"
              /\ staged[r] = 0
              /\ spawned[r] = 0
              /\ Artifacts(r) = {}
              /\ predictions[r] = <<>>
              /\ logged[r][Len(logged[r])].text \in
                    {"Error fetching data:", "No data returned for symbol:",
                     "Not enough data points for predictions."}
        /\ (entry[r] = "direct" /\ pc[r] = "done" /\ Len(prices[r]) < 2) =>
              (staged[r] = 1 \/ err[r] = TempFileErr)

C1_Witness ==
    \E r \in Req :
        /\ entry[r] = "handler" /\ pc[r] = "done"
        /\ Len(prices[r]) = 1 /\ staged[r] = 0 /\ spawned[r] = 0

(* C2, as claimed: whenever the artifact was staged, it is released        *)
(* exactly once before the invocation returns, on every exit path, and no  *)
(* staged artifact of the invocation exists after the return.              *)
C2_Original ==
    \A r \in Req :
        (Returned(r) /\ staged[r] >= 1) =>
            /\ removeCalls[r] = 1
            /\ Artifacts(r) = {}

(* C3, as claimed: a non-zero exit status makes the invocation return an   *)
(* execution error whose value carries the captured standard-error text,   *)
(* with no forecast, and the request neither writes nor updates the chart. *)
C3_Original ==
    \A r \in Req :
        /\ (pc[r] = "defer" /\ outcome[r].exit > 0) =>
              /\ err[r].type = "exec.ExitError"
              /\ outcome[r].stderr \in err[r].parts
              /\ predictions[r] = <<>>
        /\ err[r].type = "exec.ExitError" =>
              /\ pc[r] \in {"defer", "done"}
              /\ plotFile.by # r

(* C3, amended: a non-zero exit status makes the invocation return the     *)
(* exec.ExitError of cmd.Run, which carries the exit status only; the      *)
(* captured standard-error text is written to the log and is not part of   *)
(* the returned error; no forecast is returned and the request neither     *)
(* writes plot.png nor updates the image.                                  *)
C3_Amended ==
    \A r \in Req :
        /\ (pc[r] = "defer" /\ outcome[r].exit > 0) =>
              /\ err[r].type = "exec.ExitError"
              /\ err[r].parts = {"exit status 1"}
              /\ outcome[r].stderr \notin err[r].parts
              /\ logged[r][Len(logged[r])].stderr = outcome[r].stderr
              /\ predictions[r] = <<>>
        /\ err[r].type = "exec.ExitError" =>
              /\ pc[r] \in {"defer", "done"}
              /\ predictions[r] = <<>>
              /\ plotFile.by # r
              /\ img.by # r

C3_Witness ==
    \E r \in Req :
        /\ pc[r] = "done" /\ spawned[r] = 1
        /\ err[r].type = "exec.ExitError"
        /\ logged[r][Len(logged[r])].err = err[r]

(* C4, as claimed: exit status 0 with a standard output that is not an     *)
(* ordered array of numbers makes the invocation fail with a decode error  *)
(* carrying the raw output and the decode diagnostic, with no forecast.    *)
C4_Original ==
    \A r \in Req :
        (pc[r] = "defer" /\ outcome[r].exit = 0 /\ ~IsNumberArray(outcome[r].stdout)) =>
            /\ err[r].type \in JsonErrTypes
            /\ outcome[r].stdout.raw \in err[r].parts
            /\ predictions[r] = <<>>

(* the outputs json.Unmarshal rejects for a []float64: text that is not    *)
(* JSON, a JSON value other than an array or null, an array with an        *)
(* element that is neither a number nor null                               *)
Undecodable(doc) ==
    \/ doc.t \notin {"array", "null"}
    \/ \E i \in 1..Len(doc.elems) : doc.elems[i].t \notin {"num", "null"}

(* C4, amended: exit status 0 with a standard output that json.Unmarshal   *)
(* rejects makes the invocation return the decode error, which carries the *)
(* decode diagnostic but not the raw output, with no forecast, and the     *)
(* request does not go on to plotting; JSON null and null elements are not *)
(* rejected (an empty forecast, an element 0) and the request goes on.     *)
C4_Amended ==
    \A r \in Req :
        /\ (pc[r] = "defer" /\ outcome[r].exit = 0 /\ Undecodable(outcome[r].stdout)) =>
              /\ err[r].type \in JsonErrTypes
              /\ err[r].parts # {}
              /\ outcome[r].stdout.raw \notin err[r].parts
              /\ predictions[r] = <<>>
        /\ (pc[r] = "defer" /\ outcome[r].exit = 0 /\ ~Undecodable(outcome[r].stdout)) =>
              /\ err[r] = NoErr
              /\ Len(predictions[r]) = Len(outcome[r].stdout.elems)
        /\ err[r].type \in JsonErrTypes =>
              /\ pc[r] \in {"defer", "done"}
              /\ predictions[r] = <<>>
              /\ plotFile.by # r
              /\ img.by # r

C4_Witness ==
    \E r \in Req :
        /\ pc[r] = "done" /\ spawned[r] = 1
        /\ err[r].type = "json.SyntaxError"
        /\ plotFile.by # r

(* C5: the historical series plotData plots is                             *)
(* prices[max(0, len(prices) - 90) : len(prices)], the whole sequence when *)
(* it has at most 90 elements and its trailing 90 in order otherwise, and  *)
(* the k-th plotted point has horizontal index k, from 0.                  *)
C5_Window ==
    \A r \in Req :
        plotFile.by = r =>
            LET p == prices[r]
                st == plotFile.chart.stock
            IN  /\ st = WindowPoints(p)
                /\ Len(p) <= 90 =>
                      /\ Len(st) = Len(p)
                      /\ \A k \in 1..Len(p) : st[k].Y = p[k]
                /\ Len(p) > 90 =>
                      /\ Len(st) = 90
                      /\ \A k \in 1..90 : st[k].Y = p[Len(p) - 90 + k]
                /\ \A k \in 1..Len(st) : st[k].X = k - 1

C5_Witness ==
    \E r \in Req :
        /\ plotFile.by = r
        /\ Len(prices[r]) > 90
        /\ Len(plotFile.chart.stock) = 90
        /\ plotFile.chart.stock[1].Y = prices[r][Len(prices[r]) - 89]

(* C6: forecast point i (from 0) is plotted at horizontal index            *)
(* len(historicalWindow) + i with value forecast[i]: the forecast indices  *)
(* are contiguous, start right after the last historical index and never   *)
(* coincide with one; prices 100..104 with forecast 105, 106 give          *)
(* historical indices 0-4 and forecast indices 5-6.                        *)
C6_Forecast ==
    \A r \in Req :
        plotFile.by = r =>
            LET st == plotFile.chart.stock
                pr == plotFile.chart.pred
                hist == WindowPoints(prices[r])
            IN  /\ Len(pr) = Len(predictions[r])
                /\ \A i \in 0..(Len(pr) - 1) :
                      /\ pr[i + 1].X = Len(hist) + i
                      /\ pr[i + 1].Y = predictions[r][i + 1]
                /\ \A i \in 1..Len(pr) : \A k \in 1..Len(st) : pr[i].X # st[k].X
                /\ (prices[r] = <<100, 101, 102, 103, 104>> /\ predictions[r] = <<105, 106>>) =>
                      /\ st = <<[X |-> 0, Y |-> 100], [X |-> 1, Y |-> 101],
                                [X |-> 2, Y |-> 102], [X |-> 3, Y |-> 103],
                                [X |-> 4, Y |-> 104]>>
                      /\ pr = <<[X |-> 5, Y |-> 105], [X |-> 6, Y |-> 106]>>

C6_Witness ==
    \E r \in Req :
        /\ plotFile.by = r
        /\ Len(prices[r]) > 90
        /\ Len(plotFile.chart.pred) = 2
        /\ plotFile.chart.pred[1].X = 90

(* C7, as claimed: within a request the child is spawned only after the    *)
(* artifact is staged, at most one child is spawned and exactly one once   *)
(* the launch succeeded, the child has run to completion before the        *)
(* artifact is released, and the artifact is released before control       *)
(* returns from the invocation, hence before plotting starts.              *)
C7_Original ==
    \A r \in Req :
        /\ spawned[r] <= staged[r]
        /\ spawned[r] <= 1
        /\ child[r] = "running" =>
              /\ spawned[r] = 1
              /\ removeCalls[r] = 0
              /\ Artifacts(r) = {tempName[r]}
        /\ removeCalls[r] >= 1 => child[r] # "running"
        /\ (Returned(r) /\ staged[r] >= 1) =>
              /\ removeCalls[r] = 1
              /\ Artifacts(r) = {}
        /\ pc[r] \in {"plot", "update"} =>
              /\ staged[r] = 1
              /\ spawned[r] = 1
              /\ Artifacts(r) = {}

(* C8, as claimed: a request that fails at any step leaves the caller the  *)
(* description of its first failure and no chart, runs no later step, and  *)
(* the window does not go on presenting a chart left over from earlier:    *)
(* when the failed request is the only one made, the window shows none.    *)
C8_Original ==
    \A r \in Req :
        Failed(r) =>
            /\ logged[r] # <<>>
            /\ err[r] # NoErr => logged[r][Len(logged[r])].err = err[r]
            /\ plotFile.by # r
            /\ img.by # r
            /\ (\A q \in Req \ {r} : pc[q] = "idle") => img = NoFile

(* C9: concurrent invocations stage under distinct names, so none writes,  *)
(* executes or deletes the artifact of another, and the artifact of every  *)
(* handle exists from its own stage until its own release.                 *)
C9_Distinct ==
    \A r \in Req :
        /\ pc[r] \in {"write", "start", "wait", "defer"} =>
              /\ tempName[r] \in Names
              /\ tempDir[tempName[r]] = r
              /\ Artifacts(r) = {tempName[r]}
        /\ \A q \in Req \ {r} :
              (pc[r] \in {"write", "start", "wait", "defer"}
                 /\ pc[q] \in {"write", "start", "wait", "defer"}) =>
                    tempName[r] # tempName[q]

C9_Witness ==
    \E r \in Req : \E q \in Req \ {r} :
        /\ pc[r] = "wait" /\ child[r] = "running"
        /\ pc[q] = "defer" /\ removeCalls[q] = 0
        /\ tempName[r] # tempName[q]
        /\ tempDir[tempName[r]] = r /\ tempDir[tempName[q]] = q

(* C10, as claimed: under every interleaving of two requests, the chart a  *)
(* request presents after its own successful render is the one rendered    *)
(* from that request's prices and forecast.                                *)
C10_Original ==
    [][\A r \in Req :
          (pc[r] = "update" /\ pc'[r] = "done") => img'.chart = OwnChart(r)]_vars

(* C10, amended: the requests share plot.png and the window's image; what  *)
(* a request presents is what plot.png holds when it loads the image,      *)
(* which is the chart rendered from the prices and forecast of the request *)
(* that saved plot.png last: its own when no other request saved after it. *)
C10_Amended ==
    [][\A r \in Req :
          (pc[r] = "update" /\ pc'[r] = "done") =>
              /\ img' = plotFile
              /\ plotFile.by \in Req
              /\ pc[plotFile.by] \in {"update", "done"}
              /\ img'.chart = OwnChart(plotFile.by)
              /\ plotFile.by = r => img'.chart = OwnChart(r)]_vars

C10_Witness ==
    \E r \in Req : \E q \in Req \ {r} :
        /\ pc[r] = "done" /\ err[r] = NoErr /\ Len(prices[r]) >= 2
        /\ pc[q] = "update"
        /\ img.by = q
        /\ img.chart = OwnChart(q)
        /\ img.chart # OwnChart(r)

====
